---- MODULE Spec2Model ----
(***************************************************************************)
(* A model of ecuframework's Mcu ("Hub"): the Pattern handler table, the   *)
(* _Controller state (class-level and per-instance attributes), module     *)
(* registration, the priority queue of Jobs and the dispatch loop.         *)
(*                                                                         *)
(* Python objects are modelled by value.  The class-level attributes of    *)
(* _Controller (mcu.py:71-80) are shared by every instance until an        *)
(* instance attribute of the same name is assigned; list.append mutates    *)
(* the shared list in place.                                               *)
(*                                                                         *)
(* The specifications share the variables.  Spec is the                    *)
(* set-up phase: every sequence of at most MaxCalls decorations,           *)
(* register_pattern and register_modules calls on two Hubs.  SpecRun is    *)
(* the running phase: from Hubs that were set up (InitRun), producers put  *)
(* at most MaxJobs Jobs on H1's queue while each Hub's thread goes through *)
(* run(): the check of mcu_instance, the dispatch loop, and _start_modules *)
(* once looped has returned.                                               *)
(*                                                                         *)
(* SpecLive follows one running Hub whose handler never raises while       *)
(* producers never stop, with the dispatch thread scheduled fairly; at     *)
(* most MaxWaiting Jobs wait at once.  SpecJob draws two Jobs with any     *)
(* values of their fields and compares them.                               *)
(***************************************************************************)
EXTENDS Integers, Sequences, FiniteSets, TLC

\* ------------------------------------------------------------------ bounds
\* Jobs ever constructed in one behaviour.
MaxJobs == 3
\* Jobs waiting in a queue at once when producers never stop.
MaxWaiting == 2
\* Set-up calls (decorations, register_pattern, register_modules) made in one
\* behaviour of the set-up phase.
MaxCalls == 4

\* ------------------------------------------------------------ object sets
\* The Mcu instances ("Hubs").
Hubs == {"H1", "H2"}
\* The Pattern instances.
Patterns == {"P1", "P2"}
\* The module handles.
Modules == {"A", "B"}
\* The functions composing code may decorate.
Handlers == {"f1", "f2"}
\* Python's None.
None == "None"
\* The object a Hub is constructed with when it is given one (instance=...).
DomainOf(h) == IF h = "H1" THEN "D1" ELSE "D2"
\* The Hub that owns a domain object.
HubOf(d) == IF d = "D1" THEN "H1" ELSE "H2"
\* The priorities producers use (job.py:18, an integer, 1 the most urgent).
Priorities == {1, 2, 3}
\* The modules that run as producers while the Hubs run, and the Hubs whose
\* shared_queue producer threads put Jobs on directly.
Producers == {"A"}
Targets == {"H1"}
\* The lists register_modules is called with.
ModuleLists ==
    {<<>>} \cup {<<m>> : m \in Modules} \cup {<<m, n>> : m \in Modules, n \in Modules}

VARIABLES
    handler_functions,  \* Pattern._handler_functions, one dict per Pattern
    mcu_instance,       \* _Controller._mcu_instance, per instance (mcu.py:83)
    pattern_ref,        \* which dict self._pattern resolves to: "class" or a Pattern
    receiver,           \* what self._receiver resolves to
    cls_modules,        \* _Controller._modules, the class-level list (mcu.py:80)
    mod_receiver,       \* the receiver each module was last given
    pc,                 \* where each Hub's thread is in run()
    shared_queue,       \* Mcu.shared_queue: the heap of queue.PriorityQueue
    unfinished_tasks,   \* queue.Queue.unfinished_tasks
    job,                \* _processor's local variable job
    dispatched,         \* per Hub: the calls of the assigning_job handler
    started,            \* per Hub: the module.start() calls of _start_modules
    warned,             \* per Hub: 'No module to start' was logged
    own,                \* per Hub: the modules its register_modules calls added
    misused,            \* per Hub: modules registered before a pattern, or a pattern after them
    enqueued,           \* per Hub: the Jobs ever put on its shared_queue
    taken,              \* per Hub: what each shared_queue.get() returned and left
    next_id,            \* Jobs constructed so far
    calls,              \* set-up calls made so far
    raised,             \* the exception the last operation raised, or None
    register_receiver_calls, \* the modules the last set-up call gave a receiver, in order
    compared            \* two Jobs and what each comparison of them returned

vars == <<handler_functions, mcu_instance, pattern_ref, receiver, cls_modules,
          mod_receiver, pc, shared_queue, unfinished_tasks, job, dispatched,
          started, warned, own, misused, enqueued, taken, next_id, calls, raised,
          register_receiver_calls, compared>>

config_vars == <<handler_functions, pattern_ref, receiver, cls_modules, mod_receiver, own,
                 misused>>
queue_vars == <<shared_queue, unfinished_tasks, job, dispatched, enqueued, taken, next_id>>
thread_vars == <<pc, started, warned>>

\* ------------------------------------------------------------------ values
\* Receiver(mcu_instance, on_receiver) (mcu.py:13-19); obj tells a Receiver
\* from None and from a module that was never given anything.
Receiver(inst, f) == [obj |-> "Receiver", mcu_instance |-> inst, on_receiver |-> f]
NoReceiver == [obj |-> "None", mcu_instance |-> None, on_receiver |-> None]
UnsetReceiver == [obj |-> "unset", mcu_instance |-> None, on_receiver |-> None]

\* Job(goal, producer, priority=...) (job.py:12-26); id stands for the
\* object's identity, the fields the core never reads are left out.
Job(i, prio) == [id |-> i, priority |-> prio]
NoJob == [id |-> 0, priority |-> 0]

\* The values of the fields of a Job the core never reads (job.py:12-26).
Goals == {"g1", "g2"}
Datas == {None, "d1"}
Recipients == {None, "B"}
Subscriptions == {None, "s1"}

\* Job(goal, producer, data, recipient, priority, subscription) with every
\* field __init__ stores (job.py:21-26).
JobObjects ==
    [goal : Goals, producer : Modules, data : Datas, recipient : Recipients,
     priority : Priorities, subscription : Subscriptions]

\* No comparison was made.
NoResults == [op \in {} |-> FALSE]

\* No Jobs were compared.
NoComparison == [a |-> NoJob, b |-> NoJob, out |-> NoResults]

\* Job.__lt__ with the comparison turned round.
JobLtReversed(a, b) == a.priority > b.priority

\* Job.__lt__ (job.py:31-32).
JobLt(a, b) == a.priority < b.priority

\* An __eq__ that compares every field.
JobEqAllFields(a, b) == a = b

\* Job.__eq__ (job.py:28-29).
JobEq(a, b) == a.priority = b.priority

\* a != b: object.__ne__, the inverse of __eq__ (Job defines no __ne__).
JobNe(a, b) == ~JobEq(a, b)

\* a <= b as functools.total_ordering (job.py:4) derives it from __lt__:
\* (a < b) or (a == b).
JobLe(a, b) == JobLt(a, b) \/ JobEq(a, b)

\* a > b as functools.total_ordering derives it: (not a < b) and (a != b).
JobGt(a, b) == ~JobLt(a, b) /\ JobNe(a, b)

\* a >= b as functools.total_ordering derives it: not a < b.
JobGe(a, b) == ~JobLt(a, b)

\* --------------------------------------------------------------- Pattern
\* Pattern.__init__ (mcu.py:46-50).
NewHandlerFunctions ==
    [k \in {"on_receiver", "assigning_job"} |-> None]

\* d[key] = f on a dict.
DictSet(d, key, f) ==
    [k \in DOMAIN d \cup {key} |-> IF k = key THEN f ELSE d[k]]

\* The dict left by d.pop(key).
DictPop(d, key) ==
    [k \in DOMAIN d \ {key} |-> d[k]]

\* @pattern.on_receiver() applied to f (mcu.py:52-56).
on_receiver(p, f) ==
    /\ calls < MaxCalls
    /\ calls' = calls + 1
    /\ register_receiver_calls' = <<>>
    /\ handler_functions' =
         [handler_functions EXCEPT ![p] = DictSet(@, "on_receiver", f)]
    /\ raised' = None
    /\ UNCHANGED <<mcu_instance, compared, pattern_ref, receiver, cls_modules, mod_receiver,
                   own, misused>>
    /\ UNCHANGED <<queue_vars, thread_vars>>

\* @pattern.assigning_job() applied to f (mcu.py:58-62).
assigning_job(p, f) ==
    /\ calls < MaxCalls
    /\ calls' = calls + 1
    /\ register_receiver_calls' = <<>>
    /\ handler_functions' =
         [handler_functions EXCEPT ![p] = DictSet(@, "assigning_job", f)]
    /\ raised' = None
    /\ UNCHANGED <<mcu_instance, compared, pattern_ref, receiver, cls_modules, mod_receiver,
                   own, misused>>
    /\ UNCHANGED <<queue_vars, thread_vars>>

\* ------------------------------------------------------------ _Controller
\* The class attribute _pattern = {} (mcu.py:71).
ClassPattern == [k \in {} |-> None]

\* _Controller.get_pattern (mcu.py:85-86): the instance attribute when
\* register_pattern has set one, the class attribute otherwise.
get_pattern(h) ==
    IF pattern_ref[h] = "class" THEN ClassPattern
    ELSE handler_functions[pattern_ref[h]]

\* _Controller.get_mcu_instance (mcu.py:88-89).
get_mcu_instance(h) == mcu_instance[h]

\* _Controller.modules (mcu.py:94-95): self._modules is never assigned on an
\* instance, so it is the class-level list for every Hub.
modules(h) == cls_modules

\* _Controller.add_module (mcu.py:91-92), as the list after the append.
add_module(mods, m) == Append(mods, m)

\* _Controller.register_pattern (mcu.py:110-113).  The pop raises KeyError,
\* before anything is assigned, when the key is gone; self._pattern is bound
\* to the Pattern's own dict, not to a copy.
register_pattern(h, p) ==
    /\ calls < MaxCalls
    /\ calls' = calls + 1
    /\ register_receiver_calls' = <<>>
    /\ IF "on_receiver" \in DOMAIN handler_functions[p]
       THEN /\ handler_functions' =
                 [handler_functions EXCEPT ![p] = DictPop(@, "on_receiver")]
            /\ receiver' =
                 [receiver EXCEPT ![h] =
                     Receiver(mcu_instance[h], handler_functions[p]["on_receiver"])]
            /\ pattern_ref' = [pattern_ref EXCEPT ![h] = p]
            /\ misused' = [misused EXCEPT ![h] = @ \/ own[h] # <<>>]
            /\ raised' = None
            /\ UNCHANGED <<mcu_instance, compared, cls_modules, mod_receiver, own>>
            /\ UNCHANGED <<queue_vars, thread_vars>>
       ELSE /\ raised' = "KeyError"
            /\ UNCHANGED <<mcu_instance, compared, config_vars, queue_vars, thread_vars>>

\* ------------------------------------------------------------ Mcu: set-up
\* Whether m is the first element of a list.
InListHead(m, mods) == mods # <<>> /\ mods[1] = m

\* The list as it is, repetitions kept.
DedupKeepAll(L) == L

RECURSIVE Dedup(_)
\* list(dict.fromkeys(modules)) (mcu.py:125): later repetitions removed,
\* first-seen order kept.
Dedup(L) ==
    IF L = <<>> THEN <<>>
    ELSE LET init == Dedup(SubSeq(L, 1, Len(L) - 1))
             x == L[Len(L)]
         IN  IF \E i \in 1..Len(init) : init[i] = x THEN init ELSE Append(init, x)

\* module in self.controller.modules() (mcu.py:127).
InList(m, mods) == \E i \in 1..Len(mods) : mods[i] = m

\* The condition of the raise with any() for all(): one candidate that is
\* registered already is enough to reject the list.
AnyRegistered(h, cands) ==
    \E i \in 1..Len(cands) : InList(cands[i], modules(h))

\* The condition of the raise (mcu.py:127): all() over the candidates.
AllRegistered(h, cands) ==
    \A i \in 1..Len(cands) : InList(cands[i], modules(h))

RECURSIVE AddAll(_, _)
\* The list after the loop's add_module calls (mcu.py:130-133).
AddAll(mods, cands) ==
    IF cands = <<>> THEN mods
    ELSE AddAll(add_module(mods, Head(cands)), Tail(cands))

RECURSIVE RegisterReceiverAll(_)
\* The register_receiver calls of the loop of lines 131-133, one for each
\* candidate, in the loop's order.
RegisterReceiverAll(cands) ==
    IF cands = <<>> THEN <<>>
    ELSE <<Head(cands)>> \o RegisterReceiverAll(Tail(cands))

\* Mcu.register_modules with the check of lines 127-129 made after the loop.
register_modules_checking_last(h, L) ==
    LET candidate_modules == Dedup(L) IN
    /\ calls < MaxCalls
    /\ calls' = calls + 1
    /\ cls_modules' = AddAll(modules(h), candidate_modules)
    /\ own' = [own EXCEPT ![h] = @ \o candidate_modules]
    /\ misused' = [misused EXCEPT ![h] = @ \/ pattern_ref[h] = "class"]
    /\ mod_receiver' =
         [m \in Modules |->
             IF InList(m, candidate_modules) THEN receiver[h] ELSE mod_receiver[m]]
    /\ register_receiver_calls' = RegisterReceiverAll(candidate_modules)
    /\ raised' = IF AllRegistered(h, candidate_modules) THEN "AssertionError" ELSE None
    /\ UNCHANGED <<mcu_instance, compared, handler_functions, pattern_ref, receiver>>
    /\ UNCHANGED <<queue_vars, thread_vars>>

\* Mcu.register_modules (mcu.py:124-133).
register_modules(h, L) ==
    LET candidate_modules == Dedup(L) IN
    /\ calls < MaxCalls
    /\ calls' = calls + 1
    /\ IF AllRegistered(h, candidate_modules)
       THEN /\ raised' = "AssertionError"
            /\ register_receiver_calls' = <<>>
            /\ UNCHANGED <<mcu_instance, compared, config_vars, queue_vars, thread_vars>>
       ELSE /\ cls_modules' = AddAll(modules(h), candidate_modules)
            /\ own' = [own EXCEPT ![h] = @ \o candidate_modules]
            /\ misused' = [misused EXCEPT ![h] = @ \/ pattern_ref[h] = "class"]
            /\ mod_receiver' =
                 [m \in Modules |->
                     IF InList(m, candidate_modules) THEN receiver[h] ELSE mod_receiver[m]]
            /\ register_receiver_calls' = RegisterReceiverAll(candidate_modules)
            /\ raised' = None
            /\ UNCHANGED <<mcu_instance, compared, handler_functions, pattern_ref, receiver>>
            /\ UNCHANGED <<queue_vars, thread_vars>>

\* ------------------------------------------------------- Mcu: the thread
\* Mcu.run without the check of lines 154-155.
run_unchecked(h) ==
    /\ pc[h] = "created"
    /\ pc' = [pc EXCEPT ![h] = "looping"]
    /\ raised' = None
    /\ UNCHANGED <<mcu_instance, compared, register_receiver_calls, config_vars,
                   queue_vars, started, warned, calls>>

\* Mcu.run with self._start_modules() moved before the call of looped.
run_starting_first(h) ==
    /\ pc[h] = "created"
    /\ IF get_mcu_instance(h) = None
       THEN /\ pc' = [pc EXCEPT ![h] = "failed"]
            /\ raised' = "AssertionError"
            /\ UNCHANGED <<started, warned>>
       ELSE /\ pc' = [pc EXCEPT ![h] = "looping"]
            /\ raised' = None
            /\ warned' = [warned EXCEPT ![h] = (Len(modules(h)) = 0)]
            /\ started' = [started EXCEPT ![h] = modules(h)]
    /\ UNCHANGED <<mcu_instance, compared, register_receiver_calls, config_vars,
                   queue_vars, calls>>

\* Mcu.run up to the call of looped (mcu.py:151-157).
run(h) ==
    /\ pc[h] = "created"
    /\ IF get_mcu_instance(h) = None
       THEN /\ pc' = [pc EXCEPT ![h] = "failed"]
            /\ raised' = "AssertionError"
       ELSE /\ pc' = [pc EXCEPT ![h] = "looping"]
            /\ raised' = None
    /\ UNCHANGED <<mcu_instance, compared, register_receiver_calls, config_vars,
                   queue_vars, started, warned, calls>>

\* looped(self._processor, daemon=False) returning (mcu.py:157): the utility
\* calls _processor again and again on the calling thread and returns, between
\* two calls, when shutdown is requested.
looped_returns(h) ==
    /\ pc[h] = "looping"
    /\ pc' = [pc EXCEPT ![h] = "returned"]
    /\ raised' = None
    /\ UNCHANGED <<mcu_instance, compared, register_receiver_calls, config_vars,
                   queue_vars, started, warned, calls>>

\* Mcu._start_modules (mcu.py:135-138), called once looped has returned
\* (mcu.py:159).
start_modules(h) ==
    /\ pc[h] = "returned"
    /\ warned' = [warned EXCEPT ![h] = (Len(modules(h)) = 0)]
    /\ started' = [started EXCEPT ![h] = modules(h)]
    /\ pc' = [pc EXCEPT ![h] = "done"]
    /\ raised' = None
    /\ UNCHANGED <<mcu_instance, compared, register_receiver_calls, config_vars,
                   queue_vars, calls>>

\* -------------------------------------------------- queue.PriorityQueue
RECURSIVE SiftDownLoop(_, _, _, _)
\* heapq._siftdown's loop: newitem moves up from pos while it is less than
\* its parent (positions from 1: the parent of pos is pos \div 2).
SiftDownLoop(heap, startpos, pos, newitem) ==
    IF pos > startpos /\ JobLt(newitem, heap[pos \div 2])
    THEN SiftDownLoop([heap EXCEPT ![pos] = heap[pos \div 2]], startpos, pos \div 2, newitem)
    ELSE [heap EXCEPT ![pos] = newitem]

\* heapq._siftdown(heap, startpos, pos).
SiftDown(heap, startpos, pos) == SiftDownLoop(heap, startpos, pos, heap[pos])

RECURSIVE SiftUpLoop(_, _, _, _)
\* heapq._siftup's loop: the smaller child (the right one on a tie) bubbles
\* up until a leaf is hit, then newitem is sifted down from there.
SiftUpLoop(heap, startpos, pos, newitem) ==
    LET childpos == 2 * pos
        rightpos == childpos + 1
        c == IF rightpos <= Len(heap) /\ ~JobLt(heap[childpos], heap[rightpos])
             THEN rightpos ELSE childpos
    IN  IF childpos <= Len(heap)
        THEN SiftUpLoop([heap EXCEPT ![pos] = heap[c]], startpos, c, newitem)
        ELSE SiftDown([heap EXCEPT ![pos] = newitem], startpos, pos)

\* heapq._siftup(heap, pos).
SiftUp(heap, pos) == SiftUpLoop(heap, pos, pos, heap[pos])

\* A put that inserts the item at the heap's root without sifting.
HeapPushFront(heap, item) == <<item>> \o heap

\* heapq.heappush(heap, item), which PriorityQueue._put calls.
HeapPush(heap, item) == SiftDown(Append(heap, item), 1, Len(heap) + 1)

\* A get that returns the item in the heap's last position.
HeapPopLast(heap) == heap[Len(heap)]

\* The item heapq.heappop(heap) returns, which PriorityQueue._get calls.
HeapPopItem(heap) == heap[1]

\* A get that returns the head and leaves it in the heap.
HeapPopKeep(heap) == heap

\* The heap heapq.heappop(heap) leaves.
HeapPopRest(heap) ==
    LET lastelt == heap[Len(heap)]
        rest == SubSeq(heap, 1, Len(heap) - 1)
    IN  IF rest = <<>> THEN rest ELSE SiftUp([rest EXCEPT ![1] = lastelt], 1)

\* The ids of the Jobs in a heap.
Ids(heap) == {heap[i].id : i \in 1..Len(heap)}

\* shared_queue.put(j) on Hub h: the heap and the unfinished-task count after.
QueuePut(h, j) ==
    /\ shared_queue' = [shared_queue EXCEPT ![h] = HeapPush(@, j)]
    /\ unfinished_tasks' = [unfinished_tasks EXCEPT ![h] = @ + 1]
    /\ enqueued' = [enqueued EXCEPT ![h] = @ \cup {j}]

\* ------------------------------------------------------------- producers
\* A producer thread builds a Job and puts it on a Hub's public shared_queue
\* (mcu.py:122).
put(h, prio) ==
    /\ next_id < MaxJobs
    /\ next_id' = next_id + 1
    /\ QueuePut(h, Job(next_id + 1, prio))
    /\ raised' = None
    /\ UNCHANGED <<mcu_instance, compared, register_receiver_calls, config_vars,
                   thread_vars, job, dispatched, taken, calls>>

\* Module m builds a Job and calls get(job) on the receiver it was given
\* (Receiver.get, mcu.py:21-27).  The on_receiver handler is composing code;
\* it is the one of the framework's use: mcu.shared_queue.put(job) on the
\* mcu_instance it is handed, the Hub itself.  Calling get on None, calling a
\* None handler and a None mcu_instance raise.
receiver_get(m, prio) ==
    LET r == mod_receiver[m] IN
    /\ next_id < MaxJobs
    /\ r.obj # "unset"
    /\ IF r.obj = "None" \/ r.mcu_instance = None
       THEN /\ raised' = "AttributeError"
            /\ UNCHANGED <<shared_queue, unfinished_tasks, enqueued, next_id>>
       ELSE IF r.on_receiver = None
       THEN /\ raised' = "TypeError"
            /\ UNCHANGED <<shared_queue, unfinished_tasks, enqueued, next_id>>
       ELSE /\ next_id' = next_id + 1
            /\ QueuePut(HubOf(r.mcu_instance), Job(next_id + 1, prio))
            /\ raised' = None
    /\ UNCHANGED <<mcu_instance, compared, register_receiver_calls, config_vars,
                   thread_vars, job, dispatched, taken, calls>>

\* ------------------------------------------------------ the dispatch loop
\* Mcu._processor, line 146: the blocking shared_queue.get().
processor_get(h) ==
    /\ pc[h] = "looping"
    /\ shared_queue[h] # <<>>
    /\ job' = [job EXCEPT ![h] = HeapPopItem(shared_queue[h])]
    /\ shared_queue' = [shared_queue EXCEPT ![h] = HeapPopRest(@)]
    /\ taken' = [taken EXCEPT ![h] =
                   Append(@, [job |-> HeapPopItem(shared_queue[h]),
                              rest |-> Ids(HeapPopRest(shared_queue[h]))])]
    /\ pc' = [pc EXCEPT ![h] = "dispatching"]
    /\ raised' = None
    /\ UNCHANGED <<mcu_instance, compared, register_receiver_calls, config_vars,
                   unfinished_tasks, dispatched,
                   enqueued, next_id, started, warned, calls>>

\* What line 148 hands the handler.
Dispatch(h) ==
    [handler |-> get_pattern(h)["assigning_job"],
     inst |-> get_mcu_instance(h),
     job |-> job[h]]

\* Mcu._processor, lines 147-149, with the handler's exception caught and the
\* Job put back on the queue.
processor_dispatch_retrying(h) ==
    /\ pc[h] = "dispatching"
    /\ job' = [job EXCEPT ![h] = NoJob]
    /\ IF "assigning_job" \notin DOMAIN get_pattern(h)
       THEN /\ raised' = "KeyError"
            /\ pc' = [pc EXCEPT ![h] = "crashed"]
            /\ UNCHANGED <<dispatched, unfinished_tasks, shared_queue>>
       ELSE IF get_pattern(h)["assigning_job"] # None
       THEN /\ dispatched' = [dispatched EXCEPT ![h] = Append(@, Dispatch(h))]
            /\ raised' = None
            /\ pc' = [pc EXCEPT ![h] = "looping"]
            /\ \E handler_raises \in BOOLEAN :
                 IF handler_raises
                 THEN /\ shared_queue' = [shared_queue EXCEPT ![h] = HeapPush(@, job[h])]
                      /\ UNCHANGED unfinished_tasks
                 ELSE /\ unfinished_tasks' = [unfinished_tasks EXCEPT ![h] = @ - 1]
                      /\ UNCHANGED shared_queue
       ELSE /\ raised' = None
            /\ pc' = [pc EXCEPT ![h] = "looping"]
            /\ unfinished_tasks' = [unfinished_tasks EXCEPT ![h] = @ - 1]
            /\ UNCHANGED <<dispatched, shared_queue>>
    /\ UNCHANGED <<mcu_instance, compared, register_receiver_calls, config_vars,
                   enqueued, taken, next_id, started, warned, calls>>

\* Mcu._processor, lines 147-149.  get_pattern()['assigning_job'] raises
\* KeyError on a dict without the key; the handler is composing code and may
\* raise; nothing is caught, so task_done() is reached only when nothing
\* raised, and looped, which catches nothing either, ends with the exception.
processor_dispatch(h) ==
    /\ pc[h] = "dispatching"
    /\ job' = [job EXCEPT ![h] = NoJob]
    /\ IF "assigning_job" \notin DOMAIN get_pattern(h)
       THEN /\ raised' = "KeyError"
            /\ pc' = [pc EXCEPT ![h] = "crashed"]
            /\ UNCHANGED <<dispatched, unfinished_tasks>>
       ELSE IF get_pattern(h)["assigning_job"] # None
       THEN /\ dispatched' = [dispatched EXCEPT ![h] = Append(@, Dispatch(h))]
            /\ \E handler_raises \in BOOLEAN :
                 IF handler_raises
                 THEN /\ raised' = "HandlerError"
                      /\ pc' = [pc EXCEPT ![h] = "crashed"]
                      /\ UNCHANGED unfinished_tasks
                 ELSE /\ raised' = None
                      /\ pc' = [pc EXCEPT ![h] = "looping"]
                      /\ unfinished_tasks' = [unfinished_tasks EXCEPT ![h] = @ - 1]
       ELSE /\ raised' = None
            /\ pc' = [pc EXCEPT ![h] = "looping"]
            /\ unfinished_tasks' = [unfinished_tasks EXCEPT ![h] = @ - 1]
            /\ UNCHANGED dispatched
    /\ UNCHANGED <<mcu_instance, compared, register_receiver_calls, config_vars,
                   shared_queue, enqueued, taken,
                   next_id, started, warned, calls>>

\* ------------------------------------------------------------ the model
\* Mcu.__init__ of every Hub (mcu.py:115-122) and Pattern.__init__ of every
\* Pattern; H1 is constructed with its domain object or with None, H2 with
\* its domain object.
InitHubs ==
    /\ handler_functions = [p \in Patterns |-> NewHandlerFunctions]
    /\ \E inst1 \in {DomainOf("H1"), None} :
          mcu_instance = [h \in Hubs |-> IF h = "H1" THEN inst1 ELSE DomainOf(h)]
    /\ pattern_ref = [h \in Hubs |-> "class"]
    /\ receiver = [h \in Hubs |-> NoReceiver]
    /\ cls_modules = <<>>
    /\ mod_receiver = [m \in Modules |-> UnsetReceiver]
    /\ pc = [h \in Hubs |-> "created"]
    /\ shared_queue = [h \in Hubs |-> <<>>]
    /\ unfinished_tasks = [h \in Hubs |-> 0]
    /\ job = [h \in Hubs |-> NoJob]
    /\ dispatched = [h \in Hubs |-> <<>>]
    /\ started = [h \in Hubs |-> <<>>]
    /\ warned = [h \in Hubs |-> FALSE]
    /\ own = [h \in Hubs |-> <<>>]
    /\ misused = [h \in Hubs |-> FALSE]
    /\ enqueued = [h \in Hubs |-> {}]
    /\ taken = [h \in Hubs |-> <<>>]
    /\ next_id = 0
    /\ calls = 0
    /\ raised = None
    /\ register_receiver_calls = <<>>

\* The program before any call: the Hubs constructed, no Jobs compared.
Init ==
    /\ InitHubs
    /\ compared = NoComparison

\* The set-up phase: the calls composing code makes before any Hub is started.
Next ==
    \/ \E p \in Patterns, f \in Handlers : on_receiver(p, f)
    \/ \E p \in Patterns, f \in Handlers : assigning_job(p, f)
    \/ \E h \in Hubs, p \in Patterns : register_pattern(h, p)
    \/ \E h \in Hubs, L \in ModuleLists : register_modules(h, L)

Spec == Init /\ [][Next]_vars

\* ---------------------------------------------------------- running Hubs
\* The ways Hub H1 is set up before it is started.
Setups == {"no_pattern", "no_handler", "handler", "no_modules"}

\* The Hubs once the set-up is over.  H1: no register_pattern at all
\* ("no_pattern"), or on_receiver(P1, f1) and register_pattern(H1, P1)
\* ("no_handler"), with assigning_job(P1, f2) before it ("handler"); then
\* register_modules(H1, <<A>>), or, with the handler, no register_modules on
\* H1 at all ("no_modules").  H2: on_receiver(P2, f1), assigning_job(P2, f2),
\* register_pattern(H2, P2), register_modules(H2, <<B>>).  H1 is constructed
\* with its domain object or with None.
SetUp(setup, inst1) ==
        /\ mcu_instance = [h \in Hubs |-> IF h = "H1" THEN inst1 ELSE DomainOf(h)]
        /\ handler_functions =
             [p \in Patterns |->
                 IF p = "P1" /\ setup = "no_pattern" THEN NewHandlerFunctions
                 ELSE IF p = "P1" /\ setup = "no_handler"
                      THEN DictPop(NewHandlerFunctions, "on_receiver")
                 ELSE DictPop(DictSet(NewHandlerFunctions, "assigning_job", "f2"),
                              "on_receiver")]
        /\ pattern_ref =
             [h \in Hubs |->
                 IF h = "H1" THEN (IF setup = "no_pattern" THEN "class" ELSE "P1")
                 ELSE "P2"]
        /\ receiver =
             [h \in Hubs |->
                 IF h = "H1" /\ setup = "no_pattern" THEN NoReceiver
                 ELSE Receiver(IF h = "H1" THEN inst1 ELSE DomainOf(h), "f1")]
        /\ cls_modules = IF setup = "no_modules" THEN <<"B">> ELSE <<"A", "B">>
        /\ mod_receiver =
             [m \in Modules |->
                 IF m = "A"
                 THEN (IF setup = "no_modules" THEN UnsetReceiver
                       ELSE IF setup = "no_pattern" THEN NoReceiver
                       ELSE Receiver(inst1, "f1"))
                 ELSE Receiver(DomainOf("H2"), "f1")]
        /\ calls = MaxCalls
        /\ pc = [h \in Hubs |-> "created"]
        /\ shared_queue = [h \in Hubs |-> <<>>]
        /\ unfinished_tasks = [h \in Hubs |-> 0]
        /\ job = [h \in Hubs |-> NoJob]
        /\ dispatched = [h \in Hubs |-> <<>>]
        /\ started = [h \in Hubs |-> <<>>]
        /\ warned = [h \in Hubs |-> FALSE]
        /\ own = [h \in Hubs |->
                    IF h = "H2" THEN <<"B">>
                    ELSE IF setup = "no_modules" THEN <<>> ELSE <<"A">>]
        /\ misused = [h \in Hubs |-> h = "H1" /\ setup = "no_pattern"]
        /\ enqueued = [h \in Hubs |-> {}]
        /\ taken = [h \in Hubs |-> <<>>]
        /\ next_id = 0
        /\ raised = None
        /\ register_receiver_calls = <<>>
        /\ compared = NoComparison

\* Every set-up of H1, constructed with its domain object or with None.
InitRun ==
    \E setup \in Setups, inst1 \in {DomainOf("H1"), None} : SetUp(setup, inst1)

\* The threads: producers, and each Hub's run().
NextRun ==
    \/ \E h \in Targets, prio \in Priorities : put(h, prio)
    \/ \E m \in Producers, prio \in Priorities : receiver_get(m, prio)
    \/ \E h \in Hubs : run(h)
    \/ \E h \in Hubs : processor_get(h)
    \/ \E h \in Hubs : processor_dispatch(h)
    \/ \E h \in Hubs : looped_returns(h)
    \/ \E h \in Hubs : start_modules(h)

SpecRun == InitRun /\ [][NextRun]_vars

\* ------------------------------------------- producers that never stop
\* The Hub whose dispatch loop is followed while producers never stop.
LiveHub == "H1"

\* The identities Jobs take when producers never stop: an identity is free
\* again once its Job was handed to the handler and another Job was handed
\* after it.
LiveIds == 1..(MaxWaiting + 2)

\* The identities in use on LiveHub: the Jobs waiting, the Job _processor
\* holds and the Job handed to the handler last.
IdsInUse ==
    Ids(shared_queue[LiveHub]) \cup {job[LiveHub].id}
        \cup {dispatched[LiveHub][i].job.id : i \in 1..Len(dispatched[LiveHub])}

\* A producer thread puts a new Job on LiveHub's shared_queue (mcu.py:122);
\* at most MaxWaiting Jobs wait at once.
live_put(prio) ==
    LET free == LiveIds \ IdsInUse
        i == CHOOSE i \in free : \A k \in free : i <= k
    IN  /\ Len(shared_queue[LiveHub]) < MaxWaiting
        /\ free # {}
        /\ shared_queue' = [shared_queue EXCEPT ![LiveHub] = HeapPush(@, Job(i, prio))]
        /\ unfinished_tasks' = [unfinished_tasks EXCEPT ![LiveHub] = @ + 1]
        /\ raised' = None
        /\ UNCHANGED <<mcu_instance, compared, register_receiver_calls, config_vars,
                       thread_vars, job, dispatched, enqueued, taken, next_id, calls>>

\* Mcu._processor, line 146, on LiveHub: the blocking shared_queue.get().
live_get ==
    /\ pc[LiveHub] = "looping"
    /\ shared_queue[LiveHub] # <<>>
    /\ job' = [job EXCEPT ![LiveHub] = HeapPopItem(shared_queue[LiveHub])]
    /\ shared_queue' = [shared_queue EXCEPT ![LiveHub] = HeapPopRest(@)]
    /\ pc' = [pc EXCEPT ![LiveHub] = "dispatching"]
    /\ raised' = None
    /\ UNCHANGED <<mcu_instance, compared, register_receiver_calls, config_vars,
                   unfinished_tasks, dispatched, enqueued, taken, next_id,
                   started, warned, calls>>

\* Mcu._processor, lines 147-149, on LiveHub, whose pattern has an
\* assigning_job handler that does not raise: the handler is called and the
\* Job is marked done.  Only the last call is kept.
live_dispatch ==
    /\ pc[LiveHub] = "dispatching"
    /\ "assigning_job" \in DOMAIN get_pattern(LiveHub)
    /\ get_pattern(LiveHub)["assigning_job"] # None
    /\ dispatched' = [dispatched EXCEPT ![LiveHub] = <<Dispatch(LiveHub)>>]
    /\ job' = [job EXCEPT ![LiveHub] = NoJob]
    /\ unfinished_tasks' = [unfinished_tasks EXCEPT ![LiveHub] = @ - 1]
    /\ pc' = [pc EXCEPT ![LiveHub] = "looping"]
    /\ raised' = None
    /\ UNCHANGED <<mcu_instance, compared, register_receiver_calls, config_vars,
                   shared_queue, enqueued, taken, next_id, started, warned, calls>>

\* LiveHub set up with a pattern that has both handlers, and constructed with
\* its domain object.
InitLive == SetUp("handler", DomainOf(LiveHub))

\* LiveHub's thread and the producers; looped never returns.
NextLive ==
    \/ run(LiveHub)
    \/ \E prio \in Priorities : live_put(prio)
    \/ live_get
    \/ live_dispatch

\* The thread that called run() is scheduled again and again: run() reaches
\* looped, and looped calls _processor again whenever it has returned.
SpecLive ==
    /\ InitLive
    /\ [][NextLive]_vars
    /\ WF_vars(run(LiveHub))
    /\ WF_vars(live_get)
    /\ WF_vars(live_dispatch)

\* -------------------------------------------------------- Job comparisons
\* Every variable but compared.
hub_vars == <<handler_functions, mcu_instance, pattern_ref, receiver, cls_modules,
              mod_receiver, pc, shared_queue, unfinished_tasks, job, dispatched,
              started, warned, own, misused, enqueued, taken, next_id, calls,
              raised, register_receiver_calls>>

\* Two Jobs constructed with any values of their fields, not yet compared.
InitJob ==
    /\ InitHubs
    /\ \E a \in JobObjects, b \in JobObjects :
          compared = [a |-> a, b |-> b, out |-> NoResults]

\* The six comparisons of the two Jobs: a == b, a != b, a < b, a <= b, a > b
\* and a >= b (job.py:4, 28-32).
compare ==
    /\ compared.out = NoResults
    /\ compared' =
         [compared EXCEPT !.out =
             [op \in {"eq", "ne", "lt", "le", "gt", "ge"} |->
                 CASE op = "eq" -> JobEq(compared.a, compared.b)
                   [] op = "ne" -> JobNe(compared.a, compared.b)
                   [] op = "lt" -> JobLt(compared.a, compared.b)
                   [] op = "le" -> JobLe(compared.a, compared.b)
                   [] op = "gt" -> JobGt(compared.a, compared.b)
                   [] op = "ge" -> JobGe(compared.a, compared.b)]]
    /\ UNCHANGED hub_vars

NextJob == compare

SpecJob == InitJob /\ [][NextJob]_vars

\* ================================================================ claims
\* The elements of a list.
Elems(L) == {L[i] : i \in 1..Len(L)}

\* No element of a list occurs twice.
NoDup(L) == \A i, j \in 1..Len(L) : i # j => L[i] # L[j]

\* The ids of the Jobs left in the queue when get() returned the Job with this id.
RestOf(h, id) ==
    LET k == CHOOSE k \in 1..Len(taken[h]) : taken[h][k].job.id = id
    IN  taken[h][k].rest

\* ------------------------------------------------------------------- C1
\* C1 as stated: on every Hub the priorities of the Jobs handed to the
\* assigning_job handler never decrease over the whole run, Jobs enqueued
\* after earlier dispatches included.
C1_NonDecreasingOverRun ==
    \A h \in Hubs : \A i, j \in 1..Len(dispatched[h]) :
        i < j => dispatched[h][i].job.priority <= dispatched[h][j].job.priority

\* C1, amended: a Job dispatched later has a strictly smaller priority than a
\* Job dispatched earlier only if it was not yet in the queue when that earlier
\* Job was dequeued; among Jobs that were in the queue together the priorities
\* of the dispatches never decrease.
C1_NonDecreasingAmongQueued ==
    \A h \in Hubs : \A i, j \in 1..Len(dispatched[h]) :
        (i < j /\ dispatched[h][j].job.id \in RestOf(h, dispatched[h][i].job.id))
            => dispatched[h][i].job.priority <= dispatched[h][j].job.priority

\* Two Jobs of different priority that waited together were both dispatched,
\* and a third one, more urgent than the first, was enqueued and dispatched later.
C1_Witness ==
    /\ Len(dispatched["H1"]) = 3
    /\ dispatched["H1"][2].job.id \in RestOf("H1", dispatched["H1"][1].job.id)
    /\ dispatched["H1"][1].job.priority < dispatched["H1"][2].job.priority
    /\ dispatched["H1"][3].job.priority < dispatched["H1"][1].job.priority

\* ------------------------------------------------------------------- C2
\* C2 as stated: controller state is per Hub: a Hub through which no module
\* was registered has an empty module list, and a Hub on which register_pattern
\* never succeeded has no pattern key and no receiver.
C2_ControllerStatePerHub ==
    \A h \in Hubs :
        /\ own[h] = <<>> => modules(h) = <<>>
        /\ pattern_ref[h] = "class" =>
              (DOMAIN get_pattern(h) = {} /\ receiver[h] = NoReceiver)

\* ------------------------------------------------------------------- C3
\* C3: on every Hub each call of the assigning_job handler got the domain
\* object the Hub was constructed with and a Job that was put on that Hub's
\* queue, unaltered, and no Job was handed to the handler twice.
C3_DispatchedOnceUnaltered ==
    \A h \in Hubs :
        /\ \A i \in 1..Len(dispatched[h]) :
              /\ dispatched[h][i].job \in enqueued[h]
              /\ dispatched[h][i].inst = mcu_instance[h]
              /\ dispatched[h][i].inst # None
        /\ \A i, j \in 1..Len(dispatched[h]) :
              i # j => dispatched[h][i].job.id # dispatched[h][j].job.id

\* Three Jobs were put on H1's queue, two of them are dispatched, one waits.
C3_Witness ==
    /\ Cardinality(enqueued["H1"]) = 3
    /\ Len(dispatched["H1"]) = 2
    /\ Len(shared_queue["H1"]) = 1

\* ------------------------------------------------------------------- C4
\* C4: a register_modules(L) step raises AssertionError exactly when every
\* element of L is in the Hub's module list before the call (so for the empty
\* L too); otherwise it raises nothing and every element of L is in the module
\* list after it.
C4_RegisterModulesRaisesIff ==
    [][\A h \in Hubs, L \in ModuleLists :
          register_modules(h, L) =>
              /\ raised' \in {"AssertionError", None}
              /\ (raised' = "AssertionError") <=> (Elems(L) \subseteq Elems(modules(h)))
              /\ (raised' = None) => (Elems(L) \subseteq Elems(modules(h)'))]_vars

\* With A registered, a list with A and B was accepted, and then a call was
\* rejected.
C4_Witness ==
    /\ cls_modules = <<"A", "A", "B">>
    /\ raised = "AssertionError"

\* ------------------------------------------------------------------- C5
\* C5: a Hub whose mcu_instance is None never gets past the check of run():
\* it dequeues no Job, calls no handler and starts no module.
C5_UnsetInstanceNeverRuns ==
    \A h \in Hubs :
        mcu_instance[h] = None =>
            /\ pc[h] \in {"created", "failed"}
            /\ taken[h] = <<>>
            /\ job[h] = NoJob
            /\ dispatched[h] = <<>>
            /\ started[h] = <<>>

\* H1, constructed with None, was started and failed with Jobs in its queue.
C5_Witness ==
    /\ mcu_instance["H1"] = None
    /\ pc["H1"] = "failed"
    /\ Len(shared_queue["H1"]) = 2

\* ------------------------------------------------------------------- C6
\* A Hub has no assigning_job handler: no pattern was registered on it, or the
\* slot of its pattern is None.
NoHandler(h) ==
    \/ pattern_ref[h] = "class"
    \/ "assigning_job" \notin DOMAIN get_pattern(h)
    \/ get_pattern(h)["assigning_job"] = None

\* C6 as stated: on a Hub without an assigning_job handler no dispatch step
\* raises: the loop never ends with an exception, no handler is called, and
\* between two steps every Job taken from the queue is marked done.
C6_NoHandlerSilentDrop ==
    \A h \in Hubs :
        NoHandler(h) =>
            /\ pc[h] # "crashed"
            /\ dispatched[h] = <<>>
            /\ pc[h] = "looping" => unfinished_tasks[h] = Len(shared_queue[h])

\* ------------------------------------------------------------------- C7
\* C7 as stated: when only one Hub was ever given modules, its module list
\* holds no handle twice and lists the handles in the order of their first
\* registration.
C7_ModulesUniqueInOrder ==
    \A h \in Hubs :
        (\A g \in Hubs \ {h} : own[g] = <<>>) =>
            /\ NoDup(modules(h))
            /\ modules(h) = Dedup(own[h])

\* ------------------------------------------------------------------- C8
\* C8: start() is called on no module before looped has returned in that
\* Hub's run(), and once _start_modules has run, start() was called on every
\* module of the Hub's module list, in the list's order.
C8_StartAfterLoopedReturns ==
    \A h \in Hubs :
        /\ pc[h] # "done" => started[h] = <<>>
        /\ pc[h] = "done" => started[h] = modules(h)

\* H1 dispatched a Job, looped returned, and both modules were started in order.
C8_Witness ==
    /\ pc["H1"] = "done"
    /\ dispatched["H1"] # <<>>
    /\ started["H1"] = <<"A", "B">>

\* ------------------------------------------------------------------- C9
\* C9 as stated: once register_pattern succeeded on a Hub, its receiver is a
\* Receiver bound to the Hub's domain object and its active pattern has exactly
\* one key, "assigning_job", in every later state.
C9_PatternHasOneKey ==
    \A h \in Hubs :
        pattern_ref[h] # "class" =>
            /\ receiver[h].obj = "Receiver"
            /\ receiver[h].mcu_instance = mcu_instance[h]
            /\ DOMAIN get_pattern(h) = {"assigning_job"}

\* ------------------------------------------------------------------ C10
\* C10 as stated: register_pattern(p) on a Hub that has a pattern already
\* raises nothing, whatever Pattern p is, and leaves the Hub with the receiver
\* and the pattern built from p.
C10_RegisterPatternAgain ==
    [][\A h \in Hubs, p \in Patterns :
          (pattern_ref[h] # "class" /\ register_pattern(h, p)) =>
              /\ raised' = None
              /\ pattern_ref'[h] = p
              /\ receiver'[h] =
                    Receiver(mcu_instance[h], handler_functions[p]["on_receiver"])]_vars

\* ------------------------------------------------------------------ C11
\* C11: each of the six comparisons of two Jobs returns what the same
\* comparison of their priorities returns, whatever the other fields hold.
C11_ComparisonsByPriority ==
    compared.out # NoResults =>
        LET pa == compared.a.priority
            pb == compared.b.priority
        IN  /\ compared.out["eq"] = (pa = pb)
            /\ compared.out["ne"] = (pa # pb)
            /\ compared.out["lt"] = (pa < pb)
            /\ compared.out["le"] = (pa <= pb)
            /\ compared.out["gt"] = (pa > pb)
            /\ compared.out["ge"] = (pa >= pb)

\* Two Jobs of equal priority that differ in producer and data were compared
\* and a == b returned True.
C11_Witness ==
    /\ compared.out # NoResults
    /\ compared.a.priority = compared.b.priority
    /\ compared.a.producer # compared.b.producer
    /\ compared.a.data # compared.b.data
    /\ compared.out["eq"]

\* ------------------------------------------------------------------ C12
\* C12 as stated: a Hub through which no module was registered, once its
\* module-start step has run, has logged 'No module to start' and has called
\* start() on nothing, whatever was registered through the other Hubs.
C12_NoModuleWarnsStartsNothing ==
    \A h \in Hubs :
        (pc[h] = "done" /\ own[h] = <<>>) =>
            /\ warned[h]
            /\ started[h] = <<>>

\* ------------------------------------------------------------------ C13
\* The Jobs that were in a Hub's queue when its k-th get() was made: the one
\* it returned and the ones it left.
QueuedAt(h, k) ==
    {j \in enqueued[h] : j.id \in taken[h][k].rest} \cup {taken[h][k].job}

\* C13: every get() of the dispatch loop returned a Job of the queue whose
\* priority is at most the priority of every Job in the queue at that moment,
\* and no get() returned while the queue was empty (the Jobs taken and the
\* Jobs waiting are exactly the Jobs put); so the Jobs that were in the queue
\* at the first get() leave it in non-decreasing order of priority.
C13_DequeuesLeastPriority ==
    \A h \in Hubs :
        /\ \A k \in 1..Len(taken[h]) :
              /\ taken[h][k].job \in enqueued[h]
              /\ \A j \in QueuedAt(h, k) : taken[h][k].job.priority <= j.priority
        /\ Len(taken[h]) + Len(shared_queue[h]) = Cardinality(enqueued[h])
        /\ \A i, k \in 1..Len(taken[h]) :
              (i < k /\ taken[h][k].job \in QueuedAt(h, 1))
                  => taken[h][i].job.priority <= taken[h][k].job.priority

\* Jobs of priority 3, 1 and 2 were put, in this order, before the first
\* get(), and left the queue in the order 1, 2, 3.
C13_Witness ==
    /\ enqueued["H1"] = {Job(1, 3), Job(2, 1), Job(3, 2)}
    /\ Len(taken["H1"]) = 3
    /\ Cardinality(QueuedAt("H1", 1)) = 3
    /\ taken["H1"][1].job = Job(2, 1)
    /\ taken["H1"][2].job = Job(3, 2)
    /\ taken["H1"][3].job = Job(1, 3)

\* ------------------------------------------------------------------ C14
\* The Jobs producers that never stop may construct.
LiveJobs == {Job(i, prio) : i \in LiveIds, prio \in Priorities}

\* Job j waits in LiveHub's queue.
Waiting(j) == \E i \in 1..Len(shared_queue[LiveHub]) : shared_queue[LiveHub][i] = j

\* Job j is the Job LiveHub's assigning_job handler was called with last.
Handed(j) == dispatched[LiveHub] # <<>> /\ dispatched[LiveHub][1].job = j

\* C14 as stated: every Job put on the queue of a running Hub is eventually
\* handed to the handler, whatever producers put afterwards.
C14_EveryJobDispatched ==
    \A j \in LiveJobs : Waiting(j) ~> Handed(j)

\* C14, amended: every Job put on the queue of a running Hub is eventually
\* handed to the handler, unless producers put Jobs of the same or a smaller
\* priority value again and again for ever.
C14_DispatchedUnlessOvertaken ==
    \A j \in LiveJobs :
        \/ []<><<\E prio \in 1..j.priority : live_put(prio)>>_vars
        \/ Waiting(j) ~> Handed(j)

\* A Job of priority 3 was handed to the handler while a Job of priority 1,
\* put after it, waits.
C14_Witness ==
    /\ Handed(Job(1, 3))
    /\ Waiting(Job(2, 1))

\* ------------------------------------------------------------------ C15
\* C15 as stated, for the Hubs on which a pattern was registered: whenever
\* the dispatch loop is not in the middle of a step, every Job taken from the
\* queue was marked done, whether the handler is set or not and whether it
\* raised or not: the unfinished-task count is the number of Jobs waiting.
C15_TakenJobsMarkedDone ==
    \A h \in Hubs :
        (pattern_ref[h] # "class" /\ pc[h] # "dispatching") =>
            unfinished_tasks[h] = Len(shared_queue[h])

\* ------------------------------------------------------------------ C16
\* C16: a dispatch step on a Hub with an assigning_job handler calls the
\* handler once and puts nothing back on the queue; it either goes on with
\* the loop, the handler having returned, or ends the loop with the handler's
\* exception, uncaught; and a loop that ended so is never entered again: no
\* further Job is taken or handed to the handler on that Hub.
C16_HandlerFailurePropagates ==
    [][\A h \in Hubs :
          /\ (pc[h] = "dispatching" /\ pc'[h] # "dispatching" /\ ~NoHandler(h)) =>
                /\ dispatched'[h] = Append(dispatched[h], Dispatch(h))
                /\ shared_queue'[h] = shared_queue[h]
                /\ job[h].id \notin Ids(shared_queue'[h])
                /\ \/ pc'[h] = "looping" /\ raised' = None
                   \/ /\ pc'[h] = "crashed"
                      /\ raised' = "HandlerError"
                      /\ unfinished_tasks'[h] = unfinished_tasks[h]
          /\ pc[h] = "crashed" =>
                /\ pc'[h] = "crashed"
                /\ taken'[h] = taken[h]
                /\ dispatched'[h] = dispatched[h]]_vars

\* H1's handler raised on the first of two Jobs: the loop has ended, the
\* other Job waits, and a third Job was put afterwards.
C16_Witness ==
    /\ pc["H1"] = "crashed"
    /\ ~NoHandler("H1")
    /\ Len(dispatched["H1"]) = 1
    /\ Len(taken["H1"]) = 1
    /\ Len(shared_queue["H1"]) = 2
    /\ Cardinality(taken["H1"][1].rest) = 1

\* ------------------------------------------------------------------ C17
\* The positions of a list that hold the first occurrence of their element.
FirstPositions(L) == {i \in 1..Len(L) : \A k \in 1..(i - 1) : L[k] # L[i]}

\* The elements of a list at their first occurrences, in the list's order.
FirstSeen(L) ==
    [n \in 1..Cardinality(FirstPositions(L)) |->
        L[CHOOSE i \in FirstPositions(L) :
              Cardinality({k \in FirstPositions(L) : k < i}) = n - 1]]

\* C17: a register_modules(L) step that raises nothing appends to the module
\* list the elements of L at their first occurrences, in L's order, and calls
\* register_receiver, with the Hub's receiver, once on each of them and on
\* nothing else.
C17_AcceptedAppendsFirstSeen ==
    [][\A h \in Hubs, L \in ModuleLists :
          (register_modules(h, L) /\ raised' = None) =>
              /\ modules(h)' = modules(h) \o FirstSeen(L)
              /\ register_receiver_calls' = FirstSeen(L)
              /\ NoDup(register_receiver_calls')
              /\ \A m \in Modules :
                    mod_receiver'[m] =
                        IF m \in Elems(L) THEN receiver[h] ELSE mod_receiver[m]]_vars

\* With A registered, a call was accepted that appended A and B and gave
\* each of them the receiver once.
C17_Witness ==
    /\ cls_modules = <<"A", "A", "B">>
    /\ register_receiver_calls = <<"A", "B">>
    /\ raised = None

\* ------------------------------------------------------------------ C18
\* C18 as stated: in every state, every module registered through a Hub
\* holds a Receiver, and it is the Receiver the Hub has now, whatever the
\* order of the register_pattern and register_modules calls was.
C18_ModulesHoldCurrentReceiver ==
    \A h \in Hubs : \A m \in Elems(own[h]) :
        /\ mod_receiver[m].obj = "Receiver"
        /\ mod_receiver[m] = receiver[h]

\* C18, amended: on a Hub whose register_modules calls all came after a
\* register_pattern that succeeded, and on which register_pattern has not
\* succeeded since the first of them, every module registered through it, and
\* through no other Hub, holds a Receiver, and it is the Receiver the Hub has
\* now.
C18_CurrentReceiverWhenPatternFirst ==
    \A h \in Hubs :
        ~misused[h] =>
            \A m \in Elems(own[h]) :
                (\A g \in Hubs \ {h} : m \notin Elems(own[g])) =>
                    /\ mod_receiver[m].obj = "Receiver"
                    /\ mod_receiver[m] = receiver[h]

\* H1 was given a pattern and then module A, which holds H1's Receiver; H2
\* was given module B and no pattern, and B holds None.
C18_Witness ==
    /\ own["H1"] = <<"A">>
    /\ ~misused["H1"]
    /\ mod_receiver["A"] = receiver["H1"]
    /\ own["H2"] = <<"B">>
    /\ misused["H2"]
    /\ mod_receiver["B"] = NoReceiver

\* ------------------------------------------------------------------ C19
\* C19: a register_modules step that raised AssertionError left the module
\* list as it was and called register_receiver on no module: every module
\* holds what it held before.
C19_RejectedChangesNothing ==
    [][\A h \in Hubs, L \in ModuleLists :
          (raised' = "AssertionError" /\ register_modules(h, L)) =>
              /\ modules(h)' = modules(h)
              /\ register_receiver_calls' = <<>>
              /\ mod_receiver' = mod_receiver
              /\ own' = own]_vars

\* With A and B registered and given H1's receiver, register_modules was
\* called with both again and raised.
C19_Witness ==
    /\ cls_modules = <<"A", "B">>
    /\ raised = "AssertionError"
    /\ register_receiver_calls = <<>>
    /\ mod_receiver["A"].obj = "Receiver"
    /\ mod_receiver["B"].obj = "Receiver"

\* ------------------------------------------------------------------ C20
\* The start() calls made on module m: the Hub and the position in its
\* start step.
StartsOf(m) ==
    {c \in Hubs \X (1..Len(cls_modules)) :
        c[2] <= Len(started[c[1]]) /\ started[c[1]][c[2]] = m}

\* C20 as stated: a Hub's module-start step calls start() only on modules
\* registered through that Hub's own register_modules, so when the Hubs
\* registered disjoint modules no module is started twice.
C20_StartsOnlyOwnModules ==
    /\ \A h \in Hubs : Elems(started[h]) \subseteq Elems(own[h])
    /\ (\A g, h \in Hubs : g # h => Elems(own[g]) \cap Elems(own[h]) = {})
          => \A m \in Modules : Cardinality(StartsOf(m)) <= 1

====
